---- MODULE Spec2Model ----
(***************************************************************************)
(* Model of bitage.py: the plan tables (Database), the market snapshot     *)
(* (CryptoAPI), the plan dialog (PlanDialog) and the handlers of App that  *)
(* display a plan, evaluate its rules and toggle its sell rules.           *)
(*                                                                         *)
(* Text is a sequence of one-character strings, so that split(), strip(),  *)
(* float(), int() and join() are computed on the characters.  A float is   *)
(* an exact fraction [n, d] with d > 0; the decimal inputs used here are   *)
(* exactly representable, binary rounding is not modelled.                 *)
(***************************************************************************)
EXTENDS Integers, Sequences, FiniteSets, TLC

\* ------------------------------------------------------------------------
\* Bounds of the model
\* ------------------------------------------------------------------------
MaxPlans == 2

\* ------------------------------------------------------------------------
\* Characters and text
\* ------------------------------------------------------------------------
DigitChars == <<"0", "1", "2", "3", "4", "5", "6", "7", "8", "9">>

IsDigit(c) == \E k \in 1..10 : DigitChars[k] = c

DigitVal(c) == (CHOOSE k \in 1..10 : DigitChars[k] = c) - 1

RECURSIVE Split(_, _)
Split(s, sep) ==
    IF \A k \in 1..Len(s) : s[k] # sep
    THEN <<s>>
    ELSE LET k == CHOOSE k \in 1..Len(s) :
                     s[k] = sep /\ \A j \in 1..(k - 1) : s[j] # sep
         IN  <<SubSeq(s, 1, k - 1)>> \o Split(SubSeq(s, k + 1, Len(s)), sep)

RECURSIVE Strip(_)
Strip(s) ==
    IF s = <<>> THEN s
    ELSE IF Head(s) = " " THEN Strip(Tail(s))
    ELSE IF s[Len(s)] = " " THEN Strip(SubSeq(s, 1, Len(s) - 1))
    ELSE s

RECURSIVE Join(_, _)
Join(sep, items) ==
    IF items = <<>> THEN <<>>
    ELSE IF Len(items) = 1 THEN items[1]
    ELSE items[1] \o <<sep>> \o Join(sep, Tail(items))

RECURSIVE DigitsToNat(_)
DigitsToNat(s) ==
    IF s = <<>> THEN 0
    ELSE 10 * DigitsToNat(SubSeq(s, 1, Len(s) - 1)) + DigitVal(s[Len(s)])

RECURSIVE Pow10(_)
Pow10(k) == IF k = 0 THEN 1 ELSE 10 * Pow10(k - 1)

AllDigits(s) == \A k \in 1..Len(s) : IsDigit(s[k])

\* str(i) of a non-negative int
RECURSIVE StrOfNat(_)
StrOfNat(i) ==
    IF i < 10 THEN <<DigitChars[i + 1]>>
    ELSE StrOfNat(i \div 10) \o <<DigitChars[(i % 10) + 1]>>

\* int(text): surrounding blanks, an optional sign, decimal digits
IntOf(text) ==
    LET t    == Strip(text)
        neg  == t # <<>> /\ Head(t) = "-"
        body == IF t # <<>> /\ Head(t) \in {"-", "+"} THEN Tail(t) ELSE t
    IN  IF body # <<>> /\ AllDigits(body)
        THEN [ok |-> TRUE, v |-> IF neg THEN 0 - DigitsToNat(body) ELSE DigitsToNat(body)]
        ELSE [ok |-> FALSE, v |-> 0]

\* ------------------------------------------------------------------------
\* Floats as exact fractions
\* ------------------------------------------------------------------------
Rat(n) == [n |-> n, d |-> 1]

RMul(a, b) == [n |-> a.n * b.n, d |-> a.d * b.d]

RSub(a, b) == [n |-> a.n * b.d - b.n * a.d, d |-> a.d * b.d]

\* a / b for b # 0, denominator kept positive
RDiv(a, b) ==
    IF b.n > 0 THEN [n |-> a.n * b.d, d |-> a.d * b.n]
    ELSE [n |-> 0 - a.n * b.d, d |-> 0 - a.d * b.n]

RGe(a, b) == a.n * b.d >= b.n * a.d

RLe(a, b) == a.n * b.d <= b.n * a.d

REq(a, b) == a.n * b.d = b.n * a.d

\* float(text): surrounding blanks, an optional sign, digits with at most
\* one point and at least one digit; anything else is a ValueError
ParseFloat(text) ==
    LET t     == Strip(text)
        neg   == t # <<>> /\ Head(t) = "-"
        body  == IF t # <<>> /\ Head(t) \in {"-", "+"} THEN Tail(t) ELSE t
        parts == Split(body, ".")
        ip    == parts[1]
        fp    == IF Len(parts) = 2 THEN parts[2] ELSE <<>>
        good  == /\ Len(parts) <= 2
                 /\ AllDigits(ip) /\ AllDigits(fp)
                 /\ Len(ip) + Len(fp) >= 1
        mag   == DigitsToNat(ip \o fp)
    IN  IF good
        THEN [ok |-> TRUE, n |-> IF neg THEN 0 - mag ELSE mag, d |-> Pow10(Len(fp))]
        ELSE [ok |-> FALSE, n |-> 0, d |-> 1]

FloatVal(f) == [n |-> f.n, d |-> f.d]

\* ------------------------------------------------------------------------
\* CryptoAPI.get_crypto_data: four values, or four None
\* ------------------------------------------------------------------------
Some(v) == [isNone |-> FALSE, v |-> v]

NoneValue == [isNone |-> TRUE, v |-> 0]

\* numpy: the values are the numpy.float64 that pandas hands out (TRUE) or
\* Python floats (FALSE)
NoSnapshot ==
    [price |-> NoneValue, athn |-> NoneValue, low_since_ath |-> NoneValue,
     numpy |-> FALSE]

Snapshot(price, athn, low, numpy) ==
    [price |-> Some(price), athn |-> Some(athn), low_since_ath |-> Some(low),
     numpy |-> numpy]

\* ------------------------------------------------------------------------
\* What a details panel shows
\* ------------------------------------------------------------------------
AbsentMetric == [kind |-> "absent", v |-> Rat(0)]

AbsentAction == [kind |-> "absent", amount |-> Rat(0), target |-> Rat(0)]

NoBuyAction == [kind |-> "Ninguna", amount |-> Rat(0), target |-> Rat(0)]

NoSellAction == [kind |-> "Ninguna", amount |-> Rat(0), target |-> Rat(0)]

\* "VENDER {position_perc}% de la posición (Precio >= {target} USD)"
Vender(position_perc, target) ==
    [kind |-> "VENDER", amount |-> position_perc, target |-> target]

\* [int(i) for i in disabled_str.split(';') if i]
DisabledIndices(disabled_str) ==
    LET toks == SelectSeq(Split(disabled_str, ";"), LAMBDA t : t # <<>>)
    IN  [k \in 1..Len(toks) |-> IntOf(toks[k]).v]

InList(i, list) == \E k \in 1..Len(list) : list[k] = i

\* every checkbox built checked, whatever the stored set is
SellRuleVarsAllEnabled(sell_plan_str, disabled_str) ==
    IF sell_plan_str = <<>> THEN <<>>
    ELSE [k \in 1..Len(Split(sell_plan_str, ";")) |-> TRUE]

\* the BooleanVar of every checkbox built by _display_interactive_sell_plan
SellRuleVars(sell_plan_str, disabled_str) ==
    IF sell_plan_str = <<>> THEN <<>>
    ELSE LET rules == Split(sell_plan_str, ";")
         IN  [k \in 1..Len(rules) |-> ~InList(k - 1, DisabledIndices(disabled_str))]

\* the quotient not scaled to a percentage
PercentUnscaled(x, den, numpy) ==
    IF den.n # 0
    THEN [exc |-> "none", m |-> [kind |-> "num", v |-> RDiv(x, den)]]
    ELSE [exc |-> IF numpy THEN "none" ELSE "ZeroDivisionError", m |-> AbsentMetric]

\* x / den * 100 on floats; a zero denominator raises ZeroDivisionError on
\* Python floats and gives inf or nan when an operand is a numpy.float64
Percent(x, den, numpy) ==
    IF den.n # 0
    THEN [exc |-> "none", m |-> [kind |-> "num", v |-> RMul(RDiv(x, den), Rat(100))]]
    ELSE IF ~numpy
    THEN [exc |-> "ZeroDivisionError", m |-> AbsentMetric]
    ELSE [exc |-> "none",
          m |-> [kind |-> IF x.n > 0 THEN "inf" ELSE IF x.n < 0 THEN "-inf" ELSE "nan",
                 v |-> Rat(0)]]

\* the sell loop of display_dinamic_dca_details, from rule index i on
RECURSIVE DcaSellLoop(_, _, _, _, _)
DcaSellLoop(rules, i, disabled_indices, athv, price) ==
    IF i >= Len(rules) THEN [exc |-> "none", sell_action |-> NoSellAction]
    ELSE IF InList(i, disabled_indices)
    THEN DcaSellLoop(rules, i + 1, disabled_indices, athv, price)
    ELSE LET parts       == Split(rules[i + 1], ",")
             target_perc == ParseFloat(parts[1])
         IN  IF ~target_perc.ok
             THEN DcaSellLoop(rules, i + 1, disabled_indices, athv, price)
             ELSE IF Len(parts) < 2
             THEN [exc |-> "IndexError", sell_action |-> AbsentAction]
             ELSE LET position_perc == ParseFloat(parts[2])
                      target        == RMul(athv, FloatVal(target_perc))
                  IN  IF ~position_perc.ok
                      THEN DcaSellLoop(rules, i + 1, disabled_indices, athv, price)
                      ELSE IF RGe(price, target)
                      THEN [exc |-> "none",
                            sell_action |-> Vender(FloatVal(position_perc), target)]
                      ELSE DcaSellLoop(rules, i + 1, disabled_indices, athv, price)

\* the sell logic with the disabled rules not skipped
DcaSellLogicUnmasked(sellplan, sellplan_disabled, athv, price) ==
    IF sellplan = <<>> THEN [exc |-> "none", sell_action |-> NoSellAction]
    ELSE DcaSellLoop(Split(sellplan, ";"), 0, <<>>, athv, price)

\* the sell logic of display_dinamic_dca_details
DcaSellLogic(sellplan, sellplan_disabled, athv, price) ==
    IF sellplan = <<>> THEN [exc |-> "none", sell_action |-> NoSellAction]
    ELSE DcaSellLoop(Split(sellplan, ";"), 0, DisabledIndices(sellplan_disabled),
                     athv, price)

\* the buy logic of display_dinamic_dca_details: the label text is a constant
DcaBuyLogic(buyplan, athn, price) == NoBuyAction

\* display_cryptopips_details never binds the name `parts` it reads
PipsParts == [bound |-> FALSE, v |-> <<>>]

\* the sell loop of display_cryptopips_details, from rule index i on
RECURSIVE PipsSellLoop(_, _, _, _, _)
PipsSellLoop(rules, i, disabled_indices, precio_compra, price) ==
    IF i >= Len(rules) THEN [exc |-> "none", sell_action |-> NoSellAction]
    ELSE IF InList(i, disabled_indices)
    THEN PipsSellLoop(rules, i + 1, disabled_indices, precio_compra, price)
    ELSE IF ~PipsParts.bound
    THEN [exc |-> "NameError", sell_action |-> AbsentAction]
    ELSE LET parts             == PipsParts.v
             target_multiplier == ParseFloat(parts[1])
         IN  IF ~target_multiplier.ok
             THEN PipsSellLoop(rules, i + 1, disabled_indices, precio_compra, price)
             ELSE IF Len(parts) < 2
             THEN [exc |-> "IndexError", sell_action |-> AbsentAction]
             ELSE LET position_perc == ParseFloat(parts[2])
                      target_price  == RMul(precio_compra, FloatVal(target_multiplier))
                  IN  IF ~position_perc.ok
                      THEN PipsSellLoop(rules, i + 1, disabled_indices, precio_compra, price)
                      ELSE IF RGe(price, target_price)
                      THEN [exc |-> "none",
                            sell_action |-> Vender(FloatVal(position_perc), target_price)]
                      ELSE PipsSellLoop(rules, i + 1, disabled_indices, precio_compra, price)

\* the sell logic of display_cryptopips_details
PipsSellLogic(sellplan, sellplan_disabled, precio_compra, price) ==
    IF sellplan = <<>> THEN [exc |-> "none", sell_action |-> NoSellAction]
    ELSE PipsSellLoop(Split(sellplan, ";"), 0, DisabledIndices(sellplan_disabled),
                      precio_compra, price)

\* the guard left out
DcaDataMissingNever(snap) == FALSE

\* `price is None or athn is None or low_since_ath is None`
DcaDataMissing(snap) ==
    snap.price.isNone \/ snap.athn.isNone \/ snap.low_since_ath.isNone

\* `price is None`
PipsDataMissing(snap) == snap.price.isNone

\* an arithmetic operand that is None raises TypeError
Operand(x) == IF x.isNone THEN [exc |-> "TypeError", r |-> Rat(0)]
              ELSE [exc |-> "none", r |-> Rat(x.v)]

\* a label of the plan sections of the panel; a, b, c are the numbers it
\* shows, in the order of the fields of the rule
PlanLine(kind, a, b, c) == [kind |-> kind, a |-> a, b |-> b, c |-> c]

TextLine(kind) == PlanLine(kind, Rat(0), Rat(0), Rat(0))

\* no label packed for a rule
NoLabel == TextLine("")

NumericParts(parts) == \A k \in 1..Len(parts) : ParseFloat(parts[k]).ok

PartValue(parts, k) == IF k <= Len(parts) THEN FloatVal(ParseFloat(parts[k])) ELSE Rat(0)

\* the label of one rule of _display_static_buy_plan, from its fields
BuyRuleLabel(parts) ==
    IF Len(parts) \notin {2, 3} THEN NoLabel
    ELSE IF ~NumericParts(parts) THEN TextLine("Regla invalida")
    ELSE LET v == [k \in 1..3 |-> PartValue(parts, k)]
         IN  PlanLine(IF Len(parts) = 2 THEN "p <" ELSE "p ~", v[1], v[2], v[3])

\* _display_static_buy_plan: the labels after the "Base de calculo" one
display_static_buy_plan(plan_string) ==
    IF plan_string = <<>> THEN <<TextLine("No definido.")>>
    ELSE LET rules == Split(plan_string, ";")
         IN  SelectSeq([k \in 1..Len(rules) |-> BuyRuleLabel(Split(Strip(rules[k]), ","))],
                       LAMBDA label : label # NoLabel)

\* the label next to the checkbox of one rule in _display_interactive_sell_plan,
\* from its fields
SellRuleLabel(parts) ==
    IF \E k \in 1..2 : k > Len(parts) \/ ~ParseFloat(parts[k]).ok
    THEN TextLine("Regla invalida")
    ELSE LET v == [k \in 1..2 |-> PartValue(parts, k)]
         IN  PlanLine("p >", v[1], v[2], Rat(0))

\* _display_interactive_sell_plan: the labels after the "Base de calculo" one
display_interactive_sell_plan(sell_plan_str) ==
    IF sell_plan_str = <<>> THEN <<TextLine("No definido.")>>
    ELSE LET rules == Split(sell_plan_str, ";")
         IN  [k \in 1..Len(rules) |-> SellRuleLabel(Split(Strip(rules[k]), ","))]

\* how far a display function got: its status, the exception that ended it,
\* and what it put on the panel before that
Outcome(status, exc, metrics, buy_action, sell_action) ==
    [status |-> status, exc |-> exc, metrics |-> metrics,
     buy_action |-> buy_action, sell_action |-> sell_action]

\* what the details panel holds after a display function
Panel(plan_id, plan_type, plan, snap, outcome, buy_plan_lines, sell_plan_lines) ==
    [plan_id |-> plan_id, plan_type |-> plan_type, snap |-> snap,
     status |-> outcome.status, exc |-> outcome.exc, metrics |-> outcome.metrics,
     buy_action |-> outcome.buy_action, sell_action |-> outcome.sell_action,
     sellplan |-> plan.sellplan, sellplan_disabled |-> plan.sellplan_disabled,
     buy_plan_lines |-> buy_plan_lines, sell_plan_lines |-> sell_plan_lines]

\* display_dinamic_dca_details for a plan row that exists
display_dinamic_dca_details(plan_id, plan, snap) ==
    LET none3 == <<AbsentMetric, AbsentMetric, AbsentMetric>>
        outcome ==
            IF DcaDataMissing(snap)
            THEN Outcome("nodata", "none", none3, AbsentAction, AbsentAction)
            ELSE
            LET price == Operand(snap.price)
                athn  == Operand(snap.athn)
                low   == Operand(snap.low_since_ath)
            IN
            IF price.exc # "none" \/ athn.exc # "none" \/ low.exc # "none"
            THEN Outcome("crashed", "TypeError", none3, AbsentAction, AbsentAction)
            ELSE
            LET price_as_perc_of_ath  == Percent(price.r, athn.r, snap.numpy)
                current_drop_from_ath == Percent(RSub(athn.r, price.r), athn.r, snap.numpy)
                max_drop_from_ath     == Percent(RSub(athn.r, low.r), athn.r, snap.numpy)
                metrics == <<price_as_perc_of_ath.m, current_drop_from_ath.m,
                             max_drop_from_ath.m>>
            IN
            IF price_as_perc_of_ath.exc # "none"
            THEN Outcome("crashed", price_as_perc_of_ath.exc, none3, AbsentAction,
                         AbsentAction)
            ELSE
            LET buy  == DcaBuyLogic(plan.buyplan, athn.r, price.r)
                sell == DcaSellLogic(plan.sellplan, plan.sellplan_disabled, plan.athv,
                                     price.r)
            IN
            IF sell.exc # "none"
            THEN Outcome("crashed", sell.exc, metrics, buy, AbsentAction)
            ELSE Outcome("done", "none", metrics, buy, sell.sell_action)
    IN  Panel(plan_id, "DinamicDCA", plan, snap, outcome,
              IF snap.price.isNone THEN <<TextLine("Esperando datos de la API...")>>
              ELSE display_static_buy_plan(plan.buyplan),
              display_interactive_sell_plan(plan.sellplan))

\* display_cryptopips_details for a plan row that exists
display_cryptopips_details(plan_id, plan, snap) ==
    LET none1 == <<AbsentMetric>>
        outcome ==
            IF PipsDataMissing(snap)
            THEN Outcome("nodata", "none", none1, AbsentAction, AbsentAction)
            ELSE
            LET price == Operand(snap.price)
            IN
            IF price.exc # "none"
            THEN Outcome("crashed", "TypeError", none1, AbsentAction, AbsentAction)
            ELSE
            LET profit_perc == Percent(RSub(price.r, plan.precio_compra),
                                       plan.precio_compra, snap.numpy)
            IN
            IF profit_perc.exc # "none"
            THEN Outcome("crashed", profit_perc.exc, none1, AbsentAction, AbsentAction)
            ELSE
            LET sell == PipsSellLogic(plan.sellplan, plan.sellplan_disabled,
                                      plan.precio_compra, price.r)
            IN
            IF sell.exc # "none"
            THEN Outcome("crashed", sell.exc, <<profit_perc.m>>, AbsentAction, AbsentAction)
            ELSE Outcome("done", "none", <<profit_perc.m>>, AbsentAction, sell.sell_action)
    IN  Panel(plan_id, "Cryptopips", plan, snap, outcome, <<>>,
              display_interactive_sell_plan(plan.sellplan))

\* ------------------------------------------------------------------------
\* PlanDialog
\* ------------------------------------------------------------------------
LowerChars == <<"a", "b", "c">>

UpperChars == <<"A", "B", "C">>

\* str.upper()
Upper(s) ==
    [k \in 1..Len(s) |->
        IF \E j \in 1..Len(LowerChars) : LowerChars[j] = s[k]
        THEN UpperChars[CHOOSE j \in 1..Len(LowerChars) : LowerChars[j] = s[k]]
        ELSE s[k]]

IsLeap(y) == (y % 4 = 0 /\ y % 100 # 0) \/ y % 400 = 0

DaysInMonth(y, m) ==
    IF m = 2 THEN (IF IsLeap(y) THEN 29 ELSE 28)
    ELSE IF m \in {4, 6, 9, 11} THEN 30 ELSE 31

\* datetime.strptime(text, '%Y-%m-%d') returns a date rather than raising
StrptimeOk(text) ==
    LET parts == Split(text, "-")
    IN  /\ Len(parts) = 3
        /\ Len(parts[1]) = 4 /\ AllDigits(parts[1])
        /\ Len(parts[2]) \in {1, 2} /\ AllDigits(parts[2])
        /\ Len(parts[3]) \in {1, 2} /\ AllDigits(parts[3])
        /\ LET y == DigitsToNat(parts[1])
               m == DigitsToNat(parts[2])
               d == DigitsToNat(parts[3])
           IN  /\ y >= 1
               /\ m \in 1..12
               /\ d >= 1 /\ d <= DaysInMonth(y, m)

\* validate without the strptime call
validate_without_date(plan_type, entries) ==
    /\ IF plan_type = "DinamicDCA"
       THEN ParseFloat(entries.athv).ok
       ELSE ParseFloat(entries.precio_compra).ok
    /\ ~(entries.name = <<>> \/ entries.ticker = <<>>)

\* PlanDialog.validate: 1 (TRUE) or 0 (FALSE)
validate(plan_type, entries) ==
    /\ IF plan_type = "DinamicDCA"
       THEN ParseFloat(entries.athv).ok /\ StrptimeOk(entries.athv_date)
       ELSE ParseFloat(entries.precio_compra).ok
    /\ ~(entries.name = <<>> \/ entries.ticker = <<>>)

\* PlanDialog.apply: the result tuple, as the row the Database methods store
apply(plan_type, entries) ==
    IF plan_type = "DinamicDCA"
    THEN [name |-> entries.name, ticker |-> Upper(entries.ticker),
          athv |-> FloatVal(ParseFloat(entries.athv)),
          athv_date |-> entries.athv_date,
          buyplan |-> entries.buyplan, sellplan |-> entries.sellplan]
    ELSE [name |-> entries.name, ticker |-> Upper(entries.ticker),
          precio_compra |-> FloatVal(ParseFloat(entries.precio_compra)),
          sellplan |-> entries.sellplan]

\* ------------------------------------------------------------------------
\* Database
\* ------------------------------------------------------------------------
\* add_dinamic_dca / add_cryptopips: INSERT with sellplan_disabled = ''
InsertRow(table, id, result) ==
    [k \in DOMAIN table \cup {id} |->
        IF k = id
        THEN [f \in DOMAIN result \cup {"sellplan_disabled"} |->
                 IF f = "sellplan_disabled" THEN <<>> ELSE result[f]]
        ELSE table[k]]

\* update_dinamic_dca / update_cryptopips: UPDATE ... SET <result columns> WHERE id=?
UpdateRow(table, id, result) ==
    [k \in DOMAIN table |->
        IF k = id
        THEN [f \in DOMAIN table[k] |->
                 IF f \in DOMAIN result THEN result[f] ELSE table[k][f]]
        ELSE table[k]]

\* delete_dinamic_dca / delete_cryptopips: DELETE ... WHERE id=?
DeleteRow(table, id) == [k \in DOMAIN table \ {id} |-> table[k]]

\* the UPDATE without its WHERE clause
update_sell_disabled_status_every_row(table, plan_id, disabled_str) ==
    [k \in DOMAIN table |-> [table[k] EXCEPT !.sellplan_disabled = disabled_str]]

\* update_sell_disabled_status: UPDATE table SET sellplan_disabled=? WHERE id=?
update_sell_disabled_status(table, plan_id, disabled_str) ==
    [k \in DOMAIN table |->
        IF k = plan_id
        THEN [table[k] EXCEPT !.sellplan_disabled = disabled_str]
        ELSE table[k]]

\* ------------------------------------------------------------------------
\* Texts typed into the dialogs or found in an existing bitage.db
\* ------------------------------------------------------------------------
TxtEmpty == <<>>

TxtNameA == <<"a">>

TxtTickerB == <<"b">>

TxtBad == <<"x">>

Txt0 == <<"0">>

Txt100 == <<"1", "0", "0">>

TxtDateOk == <<"2", "0", "2", "4", "-", "0", "1", "-", "1", "5">>

TxtDateBad == <<"2", "0", "2", "4", "-", "0", "2", "-", "3", "0">>

TxtBuyDefault == <<"0", ".", "8", ",", "1", "0", "0", ";", "0", ".", "6", ",", "0", ".", "5", ",", "2", "0", "0">>

TxtBuyMixed == <<"0", ".", "8", ";", "x", ",", "1", ";", "1", ",", "2", ",", "3", ",", "4", ";", ".", "6", ",", ".", "5", ",", "2">>

TxtBuyBadField == <<"x", ",", "1", ";", "0", ".", "8", ",", "1", "0", "0">>

TxtSellDefault == <<"1", ".", "5", ",", "2", "5", ";", "2", ".", "0", ",", "5", "0">>

TxtSellHighFirst == <<"2", ".", "0", ",", "5", "0", ";", "1", ".", "5", ",", "2", "5">>

TxtSellOne == <<"1", ".", "5", ",", "2", "5">>

TxtSellBadField == <<"x", ",", "1", ";", "1", ".", "5", ",", "2", "5">>

TxtSellEmptyToken == <<";", "1", ".", "5", ",", "2", "5">>

TxtSellOneField == <<"1", ".", "5", ";", "1", ".", "5", ",", "2", "5">>

TxtSellLateOneField == <<"2", ".", "0", ",", "5", "0", ";", "1", ".", "5">>

TxtSellThreeFields == <<"1", ".", "5", ",", "2", "5", ",", "9">>

TxtDis0 == <<"0">>

TxtDis1 == <<"1">>

TxtDis01 == <<"0", ";", "1">>

TxtDis2 == <<"2">>


\* what the user may type into an add or edit dialog
\* (a submission has at most one unacceptable field, and then the other
\* fields are the same in every such submission)
Bad(field, good) == IF field = good THEN 0 ELSE 1

DcaEntries ==
    {e \in [name : {TxtEmpty, TxtNameA}, ticker : {TxtEmpty, TxtTickerB},
            athv : {TxtBad, Txt0, Txt100}, athv_date : {TxtDateOk, TxtDateBad},
            buyplan : {TxtBuyDefault}, sellplan : {TxtSellOne, TxtSellHighFirst}] :
        LET bad == Bad(e.name, TxtNameA) + Bad(e.ticker, TxtTickerB)
                   + (IF e.athv = TxtBad THEN 1 ELSE 0) + Bad(e.athv_date, TxtDateOk)
        IN  bad = 0 \/ (bad = 1 /\ e.athv # Txt0 /\ e.sellplan = TxtSellOne)}

PipsEntries ==
    {e \in [name : {TxtEmpty, TxtNameA}, ticker : {TxtEmpty, TxtTickerB},
            precio_compra : {TxtBad, Txt0, Txt100}, sellplan : {TxtSellOne}] :
        LET bad == Bad(e.name, TxtNameA) + Bad(e.ticker, TxtTickerB)
                   + (IF e.precio_compra = TxtBad THEN 1 ELSE 0)
        IN  bad = 0 \/ (bad = 1 /\ e.precio_compra # Txt0)}

Entries(plan_type) == IF plan_type = "DinamicDCA" THEN DcaEntries ELSE PipsEntries

\* what the market-data provider may return while the application runs
AppSnapshots == {NoSnapshot, Snapshot(200, 100, 60, TRUE)}

\* plans and snapshots for the evaluation of one stored plan
EvalSellPlans ==
    {TxtEmpty, TxtSellDefault, TxtSellHighFirst, TxtSellBadField, TxtSellEmptyToken,
     TxtSellOneField, TxtSellLateOneField, TxtSellThreeFields}

EvalDisabled == {TxtEmpty, TxtDis0, TxtDis1, TxtDis01, TxtDis2}

EvalBasePrices == {Rat(0), Rat(100)}

EvalBuyPlans == {TxtEmpty, TxtBuyDefault, TxtBuyMixed, TxtBuyBadField}

EvalSnapshots ==
    {NoSnapshot} \cup
    {Snapshot(p, a, 60, np) : p \in {75, 150, 200}, a \in {0, 100}, np \in BOOLEAN} \cup
    {Snapshot(80, 100, 60, TRUE), Snapshot(120, 100, 60, TRUE)}

EvalDcaRows ==
    [name : {TxtNameA}, ticker : {Upper(TxtTickerB)}, athv : EvalBasePrices,
     athv_date : {TxtDateOk}, buyplan : EvalBuyPlans, sellplan : EvalSellPlans,
     sellplan_disabled : EvalDisabled]

EvalPipsRows ==
    [name : {TxtNameA}, ticker : {Upper(TxtTickerB)}, precio_compra : EvalBasePrices,
     sellplan : EvalSellPlans, sellplan_disabled : EvalDisabled]

PlanTypes == {"DinamicDCA", "Cryptopips"}

\* ------------------------------------------------------------------------
\* State
\* ------------------------------------------------------------------------
VARIABLES
    dinamic_dca_plans,   \* table dinamic_dca_plans: id -> row
    cryptopips_plans,    \* table cryptopips_plans: id -> row
    dca_seq,             \* AUTOINCREMENT counter of dinamic_dca_plans
    pips_seq,            \* AUTOINCREMENT counter of cryptopips_plans
    current_plan_type,   \* App.current_plan_type
    selection,           \* selected id of App.plan_tree, 0 when nothing is selected
    details,             \* content of App.details_content_frame
    sell_rule_vars,      \* App.sell_rule_vars
    dialog,              \* the modal PlanDialog, when one is open
    market               \* the snapshots the market-data provider may return

vars == <<dinamic_dca_plans, cryptopips_plans, dca_seq, pips_seq, current_plan_type,
          selection, details, sell_rule_vars, dialog, market>>

tables == <<dinamic_dca_plans, cryptopips_plans>>

EmptyTable == [k \in {} |-> 0]

NoRow == [sellplan |-> <<>>, sellplan_disabled |-> <<>>]

\* clear_details: every widget of the details frame destroyed
ClearedPanel ==
    Panel(0, "none", NoRow, NoSnapshot,
          Outcome("cleared", "none", <<>>, AbsentAction, AbsentAction), <<>>, <<>>)

NoDialog == [open |-> FALSE, mode |-> "none", plan_type |-> "none", selected_id |-> 0,
             error_shown |-> FALSE]

Table(plan_type) ==
    IF plan_type = "DinamicDCA" THEN dinamic_dca_plans ELSE cryptopips_plans

\* display_dinamic_dca_details / display_cryptopips_details on the stored tables
\* dca and pips: the new panel and checkbox variables, or the old ones when the
\* plan is not found
Display(plan_type, plan_id, dca, pips, snap) ==
    LET table == IF plan_type = "DinamicDCA" THEN dca ELSE pips
    IN  IF plan_id \notin DOMAIN table
        THEN [details |-> details, sell_rule_vars |-> sell_rule_vars]
        ELSE [details |->
                 IF plan_type = "DinamicDCA"
                 THEN display_dinamic_dca_details(plan_id, table[plan_id], snap)
                 ELSE display_cryptopips_details(plan_id, table[plan_id], snap),
              sell_rule_vars |->
                 SellRuleVars(table[plan_id].sellplan, table[plan_id].sellplan_disabled)]

Init ==
    /\ dinamic_dca_plans = EmptyTable
    /\ cryptopips_plans = EmptyTable
    /\ dca_seq = 0
    /\ pips_seq = 0
    /\ current_plan_type = "DinamicDCA"
    /\ selection = 0
    /\ details = ClearedPanel
    /\ sell_rule_vars = <<>>
    /\ dialog = NoDialog
    /\ market = AppSnapshots

\* the application started on a bitage.db that already holds one plan
InitEval ==
    /\ \/ /\ dinamic_dca_plans \in {[k \in {1} |-> r] : r \in EvalDcaRows}
          /\ cryptopips_plans = EmptyTable
          /\ dca_seq = 1 /\ pips_seq = 0
       \/ /\ dinamic_dca_plans = EmptyTable
          /\ cryptopips_plans \in {[k \in {1} |-> r] : r \in EvalPipsRows}
          /\ dca_seq = 0 /\ pips_seq = 1
    /\ current_plan_type = "DinamicDCA"
    /\ selection = 0
    /\ details = ClearedPanel
    /\ sell_rule_vars = <<>>
    /\ dialog = NoDialog
    /\ market = EvalSnapshots

\* ------------------------------------------------------------------------
\* Handlers
\* ------------------------------------------------------------------------
\* a radio button: switch_plan_type = refresh_plan_list + clear_details
switch_plan_type(t) ==
    /\ ~dialog.open
    /\ current_plan_type' = t
    /\ selection' = 0
    /\ details' = ClearedPanel
    /\ UNCHANGED <<tables, dca_seq, pips_seq, sell_rule_vars, dialog, market>>

\* <<TreeviewSelect>> on a listed plan
on_plan_select(selected_id) ==
    /\ ~dialog.open
    /\ selected_id \in DOMAIN Table(current_plan_type)
    /\ \E snap \in market :
          \E shown \in {Display(current_plan_type, selected_id, dinamic_dca_plans,
                                cryptopips_plans, snap)} :
              /\ details' = shown.details
              /\ sell_rule_vars' = shown.sell_rule_vars
    /\ selection' = selected_id
    /\ UNCHANGED <<tables, dca_seq, pips_seq, current_plan_type, dialog, market>>

\* the positions counted from 1
DisabledStrOneBased(rule_vars) ==
    LET idx == SelectSeq([k \in 1..Len(rule_vars) |-> k],
                         LAMBDA i : ~rule_vars[i])
    IN  Join(";", [k \in 1..Len(idx) |-> StrOfNat(idx[k])])

\* ";".join(str(i) for i, var in enumerate(sell_rule_vars) if not var.get())
DisabledStr(rule_vars) ==
    LET idx == SelectSeq([k \in 1..Len(rule_vars) |-> k - 1],
                         LAMBDA i : ~rule_vars[i + 1])
    IN  Join(";", [k \in 1..Len(idx) |-> StrOfNat(idx[k])])

\* the toggle with the panel refreshed from the rows read before the write
on_sell_rule_toggled_stale(i) ==
    /\ ~dialog.open
    /\ details.status # "cleared"
    /\ i \in 0..(Len(sell_rule_vars) - 1)
    /\ LET clicked      == [sell_rule_vars EXCEPT ![i + 1] = ~@]
           plan_id      == details.plan_id
           plan_type    == details.plan_type
           disabled_str == DisabledStr(clicked)
       IN  /\ dinamic_dca_plans' =
                 IF plan_type = "DinamicDCA"
                 THEN update_sell_disabled_status(dinamic_dca_plans, plan_id, disabled_str)
                 ELSE dinamic_dca_plans
           /\ cryptopips_plans' =
                 IF plan_type = "DinamicDCA"
                 THEN cryptopips_plans
                 ELSE update_sell_disabled_status(cryptopips_plans, plan_id, disabled_str)
           /\ \E snap \in market :
                 \E shown \in {Display(plan_type, plan_id, dinamic_dca_plans,
                                       cryptopips_plans, snap)} :
                     /\ details' = shown.details
                     /\ sell_rule_vars' = shown.sell_rule_vars
    /\ UNCHANGED <<dca_seq, pips_seq, current_plan_type, selection, dialog, market>>

\* a click on the checkbox of sell rule i of the displayed plan, then
\* _on_sell_rule_toggled(plan_id, plan_type) of that panel
on_sell_rule_toggled(i) ==
    /\ ~dialog.open
    /\ details.status # "cleared"
    /\ i \in 0..(Len(sell_rule_vars) - 1)
    /\ LET clicked      == [sell_rule_vars EXCEPT ![i + 1] = ~@]
           plan_id      == details.plan_id
           plan_type    == details.plan_type
           disabled_str == DisabledStr(clicked)
           dca  == IF plan_type = "DinamicDCA"
                   THEN update_sell_disabled_status(dinamic_dca_plans, plan_id, disabled_str)
                   ELSE dinamic_dca_plans
           pips == IF plan_type = "DinamicDCA"
                   THEN cryptopips_plans
                   ELSE update_sell_disabled_status(cryptopips_plans, plan_id, disabled_str)
       IN  /\ dinamic_dca_plans' = dca
           /\ cryptopips_plans' = pips
           /\ \E snap \in market :
                 \E shown \in {Display(plan_type, plan_id, dca, pips, snap)} :
                     /\ details' = shown.details
                     /\ sell_rule_vars' =
                            IF plan_id \in DOMAIN (IF plan_type = "DinamicDCA" THEN dca ELSE pips)
                            THEN shown.sell_rule_vars ELSE clicked
    /\ UNCHANGED <<dca_seq, pips_seq, current_plan_type, selection, dialog, market>>

\* add_plan up to the modal dialog
add_plan ==
    /\ ~dialog.open
    /\ dca_seq + pips_seq < MaxPlans
    /\ dialog' = [open |-> TRUE, mode |-> "add", plan_type |-> current_plan_type,
                  selected_id |-> 0, error_shown |-> FALSE]
    /\ UNCHANGED <<tables, dca_seq, pips_seq, current_plan_type, selection, details,
                   sell_rule_vars, market>>

\* edit_plan up to the modal dialog; without a selection only a warning
edit_plan ==
    /\ ~dialog.open
    /\ selection # 0
    /\ dialog' = [open |-> TRUE, mode |-> "edit", plan_type |-> current_plan_type,
                  selected_id |-> selection, error_shown |-> FALSE]
    /\ UNCHANGED <<tables, dca_seq, pips_seq, current_plan_type, selection, details,
                   sell_rule_vars, market>>

\* OK in the dialog: validate, and when it passes apply and the rest of
\* add_plan or edit_plan
dialog_ok(entries) ==
    /\ dialog.open
    /\ entries \in Entries(dialog.plan_type)
    /\ IF ~validate(dialog.plan_type, entries)
       THEN /\ dialog' = [dialog EXCEPT !.error_shown = TRUE]
            /\ UNCHANGED <<tables, dca_seq, pips_seq, current_plan_type, selection,
                           details, sell_rule_vars, market>>
       ELSE LET result == apply(dialog.plan_type, entries)
            IN  /\ dialog' = NoDialog
                /\ selection' = 0
                /\ IF dialog.mode = "add"
                   THEN /\ IF dialog.plan_type = "DinamicDCA"
                           THEN /\ dinamic_dca_plans' =
                                      InsertRow(dinamic_dca_plans, dca_seq + 1, result)
                                /\ dca_seq' = dca_seq + 1
                                /\ UNCHANGED <<cryptopips_plans, pips_seq>>
                           ELSE /\ cryptopips_plans' =
                                      InsertRow(cryptopips_plans, pips_seq + 1, result)
                                /\ pips_seq' = pips_seq + 1
                                /\ UNCHANGED <<dinamic_dca_plans, dca_seq>>
                        /\ UNCHANGED details
                   ELSE /\ IF dialog.plan_type = "DinamicDCA"
                           THEN /\ dinamic_dca_plans' =
                                      UpdateRow(dinamic_dca_plans, dialog.selected_id, result)
                                /\ UNCHANGED cryptopips_plans
                           ELSE /\ cryptopips_plans' =
                                      UpdateRow(cryptopips_plans, dialog.selected_id, result)
                                /\ UNCHANGED dinamic_dca_plans
                        /\ details' = ClearedPanel
                        /\ UNCHANGED <<dca_seq, pips_seq>>
                /\ UNCHANGED <<current_plan_type, sell_rule_vars, market>>

\* Cancel in the dialog: no result, then the rest of add_plan or edit_plan
dialog_cancel ==
    /\ dialog.open
    /\ dialog' = NoDialog
    /\ selection' = 0
    /\ details' = IF dialog.mode = "edit" THEN ClearedPanel ELSE details
    /\ UNCHANGED <<tables, dca_seq, pips_seq, current_plan_type, sell_rule_vars, market>>

\* delete_plan with the confirmation answered yes
delete_plan ==
    /\ ~dialog.open
    /\ selection # 0
    /\ IF current_plan_type = "DinamicDCA"
       THEN /\ dinamic_dca_plans' = DeleteRow(dinamic_dca_plans, selection)
            /\ UNCHANGED cryptopips_plans
       ELSE /\ cryptopips_plans' = DeleteRow(cryptopips_plans, selection)
            /\ UNCHANGED dinamic_dca_plans
    /\ selection' = 0
    /\ details' = ClearedPanel
    /\ UNCHANGED <<dca_seq, pips_seq, current_plan_type, sell_rule_vars, dialog, market>>

Next ==
    \/ \E t \in PlanTypes : switch_plan_type(t)
    \/ \E id \in 1..MaxPlans : on_plan_select(id)
    \/ \E i \in 0..(Len(sell_rule_vars) - 1) : on_sell_rule_toggled(i)
    \/ add_plan
    \/ edit_plan
    \/ \E entries \in DcaEntries \cup PipsEntries : dialog_ok(entries)
    \/ dialog_cancel
    \/ delete_plan

Spec == Init /\ [][Next]_vars

NextEval ==
    \/ \E t \in PlanTypes : switch_plan_type(t)
    \/ \E id \in 1..MaxPlans : on_plan_select(id)

SpecEval == InitEval /\ [][NextEval]_vars

\* ------------------------------------------------------------------------
\* Rule lists as the claims read them
\* ------------------------------------------------------------------------
RuleTokens(plan) == IF plan = <<>> THEN <<>> ELSE Split(plan, ";")

Fields(token) == Split(token, ",")

NumericFields(token, count) ==
    /\ Len(Fields(token)) = count
    /\ \A k \in 1..count : ParseFloat(Fields(token)[k]).ok

Field(token, k) == FloatVal(ParseFloat(Fields(token)[k]))

DisabledSet(disabled_str) ==
    {DisabledIndices(disabled_str)[k] : k \in 1..Len(DisabledIndices(disabled_str))}

ActionEq(a, b) == a.kind = b.kind /\ REq(a.amount, b.amount) /\ REq(a.target, b.target)

\* the action of the lowest-index enabled two-field rule with price >= base * factor
ExpectedSell(sellplan, disabled_str, base, price) ==
    LET toks  == RuleTokens(sellplan)
        hit   == {i \in 0..(Len(toks) - 1) :
                     /\ i \notin DisabledSet(disabled_str)
                     /\ NumericFields(toks[i + 1], 2)
                     /\ RGe(price, RMul(base, Field(toks[i + 1], 1)))}
    IN  IF hit = {} THEN NoSellAction
        ELSE LET i == CHOOSE i \in hit : \A j \in hit : i <= j
             IN  Vender(Field(toks[i + 1], 2), RMul(base, Field(toks[i + 1], 1)))

\* "COMPRAR": the amount of a matching buy rule
Comprar(amount) == [kind |-> "COMPRAR", amount |-> amount, target |-> Rat(0)]

BuyMatches(token, athn, price) ==
    \/ /\ NumericFields(token, 2)
       /\ RLe(price, RMul(athn, Field(token, 1)))
    \/ /\ NumericFields(token, 3)
       /\ RLe(RMul(athn, Field(token, 2)), price)
       /\ RLe(price, RMul(athn, Field(token, 1)))

\* the action of the lowest-index matching buy rule
ExpectedBuy(buyplan, athn, price) ==
    LET toks == RuleTokens(buyplan)
        hit  == {i \in 0..(Len(toks) - 1) : BuyMatches(toks[i + 1], athn, price)}
    IN  IF hit = {} THEN NoBuyAction
        ELSE LET i == CHOOSE i \in hit : \A j \in hit : i <= j
             IN  Comprar(Field(toks[i + 1], Len(Fields(toks[i + 1]))))

PanelShown == details.status # "cleared"

DcaPanel == PanelShown /\ details.plan_type = "DinamicDCA"

PipsPanel == PanelShown /\ details.plan_type = "Cryptopips"

DcaRow == dinamic_dca_plans[details.plan_id]

PipsRow == cryptopips_plans[details.plan_id]

PanelPrice == Rat(details.snap.price.v)

PanelAthn == Rat(details.snap.athn.v)

\* ------------------------------------------------------------------------
\* Evaluation of one stored plan (SpecEval)
\* ------------------------------------------------------------------------
\* C1: whenever the sell logic of an accumulation plan runs on a sell-rule
\* list whose tokens all have two numeric fields, it completes and the
\* recommended sell action is that of the lowest-index rule that is not
\* disabled and has price >= athv * factor (equality included), and "no sell
\* action" when no enabled rule has; with 2.0,50;1.5,25, athv = 100 and price
\* 200 that is rule 0, and rule 1 once index 0 is disabled.
C1_SellFirstEnabledMatch ==
    (/\ DcaPanel
     /\ ~details.snap.price.isNone
     /\ details.exc # "ZeroDivisionError"
     /\ \A k \in 1..Len(RuleTokens(details.sellplan)) :
           NumericFields(RuleTokens(details.sellplan)[k], 2))
    => /\ details.status = "done"
       /\ ActionEq(details.sell_action,
                   ExpectedSell(details.sellplan, details.sellplan_disabled,
                                DcaRow.athv, PanelPrice))
       /\ (/\ details.sellplan = TxtSellHighFirst
           /\ REq(DcaRow.athv, Rat(100))
           /\ details.snap.price.v = 200)
          => /\ details.sellplan_disabled = TxtEmpty
                => ActionEq(details.sell_action, Vender(Rat(50), Rat(200)))
             /\ details.sellplan_disabled = TxtDis0
                => ActionEq(details.sell_action, Vender(Rat(25), Rat(150)))

\* rule 1 of 2.0,50;1.5,25 recommended because rule 0 is disabled
C1_Witness ==
    /\ DcaPanel
    /\ details.status = "done"
    /\ details.sellplan = TxtSellHighFirst
    /\ details.sellplan_disabled = TxtDis0
    /\ details.snap.price.v = 200
    /\ REq(DcaRow.athv, Rat(100))
    /\ ActionEq(details.sell_action, Vender(Rat(25), Rat(150)))

\* C2: whenever a price is available, evaluating a single-entry plan
\* completes and gives the profit metric and the sell action of the
\* lowest-index enabled rule with price >= purchasePrice * factor, or "no
\* sell action" when none matches.
C2_SingleEntryCompletes ==
    (PipsPanel /\ ~details.snap.price.isNone /\ PipsRow.precio_compra.n # 0)
    => /\ details.status = "done"
       /\ details.metrics[1].kind = "num"
       /\ ActionEq(details.sell_action,
                   ExpectedSell(details.sellplan, details.sellplan_disabled,
                                PipsRow.precio_compra, PanelPrice))

\* C3: the recommended buy action of an accumulation plan is that of the
\* lowest-index matching buy rule (two fields: price <= athNow * factor; three
\* fields: athNow * lower <= price <= athNow * upper), whatever the disabled
\* set is, and "no buy action" only when no rule matches.
C3_BuyFirstMatch ==
    (DcaPanel /\ details.status = "done")
    => ActionEq(details.buy_action,
                ExpectedBuy(DcaRow.buyplan, PanelAthn, PanelPrice))

\* C4: a malformed sell-rule token (non-numeric field, empty token, fewer
\* than two fields) is skipped and never aborts the sell evaluation of an
\* accumulation plan: the evaluation completes with the action of the
\* lowest-index enabled well-formed rule that matches.
C4_MalformedSkipped ==
    (/\ DcaPanel
     /\ ~details.snap.price.isNone
     /\ details.exc # "ZeroDivisionError"
     /\ \A k \in 1..Len(RuleTokens(details.sellplan)) :
           Len(Fields(RuleTokens(details.sellplan)[k])) <= 2)
    => /\ details.status = "done"
       /\ ActionEq(details.sell_action,
                   ExpectedSell(details.sellplan, details.sellplan_disabled,
                                DcaRow.athv, PanelPrice))

\* C5: when the denominator of a metric is zero (athNow, purchase price) the
\* evaluation does not crash: the metric is reported as unavailable and the
\* evaluation ends with its other outputs.
C5_ZeroDenominatorUnavailable ==
    /\ (DcaPanel /\ ~details.snap.athn.isNone /\ details.snap.athn.v = 0)
       => /\ details.exc # "ZeroDivisionError"
          /\ \A k \in 1..3 : details.metrics[k].kind = "unavailable"
    /\ (PipsPanel /\ ~details.snap.price.isNone /\ PipsRow.precio_compra.n = 0)
       => /\ details.exc # "ZeroDivisionError"
          /\ details.metrics[1].kind = "unavailable"

\* C6: when the provider returns no snapshot, the evaluation of either plan
\* type ends in the no-data outcome, without an exception, with no metric and
\* no buy or sell recommendation.
C6_NoDataOutcome ==
    (PanelShown /\ details.snap = NoSnapshot)
    => /\ details.status = "nodata"
       /\ details.exc = "none"
       /\ \A k \in 1..Len(details.metrics) : details.metrics[k] = AbsentMetric
       /\ details.buy_action = AbsentAction
       /\ details.sell_action = AbsentAction

\* an accumulation plan with sell rules displayed without a snapshot
C6_Witness ==
    /\ DcaPanel
    /\ details.snap = NoSnapshot
    /\ details.status = "nodata"
    /\ details.sellplan = TxtSellDefault

\* ------------------------------------------------------------------------
\* The application (Spec)
\* ------------------------------------------------------------------------
AllButDisabledKept(old, new) ==
    /\ DOMAIN new = DOMAIN old
    /\ \A f \in DOMAIN old \ {"sellplan_disabled"} : new[f] = old[f]

ToggleFrame(plan_type, old, new) ==
    /\ DOMAIN new = DOMAIN old
    /\ \A id \in DOMAIN old :
          IF details.plan_type = plan_type /\ id = details.plan_id
          THEN AllButDisabledKept(old[id], new[id])
          ELSE new[id] = old[id]

\* C7: a toggle of a sell rule changes nothing in storage but the
\* disabled-index set of the plan the checkbox belongs to: that plan keeps its
\* name, ticker, reference price, date and rule lists, and every other plan of
\* either type keeps its whole record.
C7_ToggleChangesOnlyDisabled ==
    [][(\E i \in 0..(Len(sell_rule_vars) - 1) : on_sell_rule_toggled(i))
       => /\ ToggleFrame("DinamicDCA", dinamic_dca_plans, dinamic_dca_plans')
          /\ ToggleFrame("Cryptopips", cryptopips_plans, cryptopips_plans')]_vars

\* a plan with a rule disabled by a toggle, next to another stored plan
C7_Witness ==
    /\ DcaPanel
    /\ DcaRow.sellplan_disabled # <<>>
    /\ Cardinality(DOMAIN dinamic_dca_plans) = 2
    /\ \E id \in DOMAIN dinamic_dca_plans : dinamic_dca_plans[id].sellplan_disabled = <<>>

ShownRow == Table(details.plan_type)[details.plan_id]

\* C8: the disabled set a displayed evaluation used is the one in storage:
\* the toggle writes it before the evaluation that follows it runs, and the
\* recommended sell action on screen is the one computed with exactly the
\* stored set.
C8_ShownUsesPersisted ==
    PanelShown
    => /\ details.plan_id \in DOMAIN Table(details.plan_type)
       /\ details.sellplan_disabled = ShownRow.sellplan_disabled
       /\ details.status = "done"
          => ActionEq(details.sell_action,
                      ExpectedSell(ShownRow.sellplan, ShownRow.sellplan_disabled,
                                   IF details.plan_type = "DinamicDCA"
                                   THEN ShownRow.athv ELSE ShownRow.precio_compra,
                                   PanelPrice))

\* after rule 0 of 2.0,50;1.5,25 was switched off, rule 1 is the recommendation
C8_Witness ==
    /\ DcaPanel
    /\ details.status = "done"
    /\ DcaRow.sellplan = TxtSellHighFirst
    /\ DcaRow.sellplan_disabled = TxtDis0
    /\ REq(DcaRow.athv, Rat(100))
    /\ ActionEq(details.sell_action, Vender(Rat(25), Rat(150)))

\* what the dialog has to reject
InvalidEntries(plan_type, entries) ==
    \/ entries.name = <<>>
    \/ entries.ticker = <<>>
    \/ /\ plan_type = "DinamicDCA"
       /\ ~ParseFloat(entries.athv).ok \/ ~StrptimeOk(entries.athv_date)
    \/ /\ plan_type = "Cryptopips"
       /\ ~ParseFloat(entries.precio_compra).ok

\* C9: an add or edit dialog submitted with a non-numeric reference price, an
\* empty name or ticker, or an unparsable ATH date changes nothing in storage:
\* both tables keep their rows and all their fields (no step that changes
\* storage is the OK of such a submission).
C9_RejectedLeavesStorage ==
    [][(dialog.open /\ <<tables, dca_seq, pips_seq>>' # <<tables, dca_seq, pips_seq>>)
       => \A e \in Entries(dialog.plan_type) :
             InvalidEntries(dialog.plan_type, e) => ~dialog_ok(e)]_vars

\* the edit dialog of a stored plan showing the validation error
C9_Witness ==
    /\ dialog.open
    /\ dialog.mode = "edit"
    /\ dialog.error_shown
    /\ dialog.selected_id \in DOMAIN Table(dialog.plan_type)

\* C10: every stored accumulation plan has a manual ATH > 0 and every stored
\* single-entry plan has a purchase price > 0.
C10_ReferencePricePositive ==
    /\ \A id \in DOMAIN dinamic_dca_plans : dinamic_dca_plans[id].athv.n > 0
    /\ \A id \in DOMAIN cryptopips_plans : cryptopips_plans[id].precio_compra.n > 0

\* ------------------------------------------------------------------------
\* Rule diagnostics and metrics of one stored plan (SpecEval)
\* ------------------------------------------------------------------------
\* the result the parser owes for one buy token
ExpectedBuyKind(token) ==
    IF NumericFields(token, 2) THEN "p <"
    ELSE IF NumericFields(token, 3) THEN "p ~"
    ELSE "Regla invalida"

\* C11: the buy plan of a displayed accumulation plan shows exactly one
\* result per semicolon-delimited token, in source order: a threshold rule for
\* 2 numeric fields, a range rule for 3 numeric fields, and an invalid-rule
\* diagnostic for any other field count or a non-numeric field, the other
\* tokens being parsed all the same.
C11_OneResultPerBuyToken ==
    (DcaPanel /\ ~details.snap.price.isNone /\ DcaRow.buyplan # <<>>)
    => LET toks == RuleTokens(DcaRow.buyplan)
       IN  /\ Len(details.buy_plan_lines) = Len(toks)
           /\ \A k \in 1..Len(toks) :
                 details.buy_plan_lines[k].kind = ExpectedBuyKind(toks[k])

\* C12: a sell token is a rule only with exactly 2 numeric fields: a token
\* with 1 field or with 3 or more is shown as an invalid rule and never gives
\* the recommended sell action, for both plan types.
C12_SellRuleNeedsTwoFields ==
    PanelShown
    => LET toks == RuleTokens(details.sellplan)
       IN  /\ \A k \in 1..Len(toks) :
                 Len(Fields(toks[k])) # 2
                 => details.sell_plan_lines[k].kind = "Regla invalida"
           /\ details.sell_action.kind = "VENDER"
              => ActionEq(details.sell_action,
                          ExpectedSell(details.sellplan, details.sellplan_disabled,
                                       IF details.plan_type = "DinamicDCA"
                                       THEN DcaRow.athv ELSE PipsRow.precio_compra,
                                       PanelPrice))

MetricIs(m, num, den) == m.kind = "num" /\ m.v.n * den = num * m.v.d

\* C13: with athNow > 0 the three accumulation metrics are price / athNow *
\* 100, (athNow - price) / athNow * 100 and (athNow - lowSinceAth) / athNow *
\* 100, the first two adding up to 100 (80, 20 and 40 for price 80, athNow
\* 100, low 60); the manual ATH athv has no part in them.
C13_DcaMetrics ==
    (DcaPanel /\ ~details.snap.price.isNone /\ details.snap.athn.v > 0)
    => LET price == details.snap.price.v
           athn  == details.snap.athn.v
           low   == details.snap.low_since_ath.v
           m     == details.metrics
       IN  /\ MetricIs(m[1], 100 * price, athn)
           /\ MetricIs(m[2], 100 * (athn - price), athn)
           /\ MetricIs(m[3], 100 * (athn - low), athn)
           /\ REq(RSub(Rat(100), m[1].v), m[2].v)
           /\ (price = 80 /\ athn = 100 /\ low = 60)
              => /\ REq(m[1].v, Rat(80))
                 /\ REq(m[2].v, Rat(20))
                 /\ REq(m[3].v, Rat(40))

\* 80 %, 20 % and 40 % shown for a plan whose manual ATH is not the observed one
C13_Witness ==
    /\ DcaPanel
    /\ details.snap = Snapshot(80, 100, 60, TRUE)
    /\ ~REq(DcaRow.athv, PanelAthn)
    /\ REq(details.metrics[1].v, Rat(80))
    /\ REq(details.metrics[3].v, Rat(40))

\* ------------------------------------------------------------------------
\* The stored disabled-index set (Spec)
\* ------------------------------------------------------------------------
ValidDisabled(row) ==
    \A i \in DisabledSet(row.sellplan_disabled) : i < Len(RuleTokens(row.sellplan))

\* C14: every index in the stored disabled-index set of every plan is a
\* position of the plan's current sell-rule list (index < number of tokens),
\* after any sequence of add, edit, toggle and delete, also after an edit that
\* shortens the list.
C14_DisabledIndicesValid ==
    /\ \A id \in DOMAIN dinamic_dca_plans : ValidDisabled(dinamic_dca_plans[id])
    /\ \A id \in DOMAIN cryptopips_plans : ValidDisabled(cryptopips_plans[id])

DisabledStep(old, new) ==
    \A id \in DOMAIN new :
       IF id \notin DOMAIN old
       THEN new[id].sellplan_disabled = <<>>
       ELSE /\ new[id].sellplan_disabled # old[id].sellplan_disabled
               => /\ ValidDisabled(new[id])
                  /\ new[id].sellplan = old[id].sellplan
            /\ (ValidDisabled(old[id]) /\ ~ValidDisabled(new[id]))
               => /\ new[id].sellplan_disabled = old[id].sellplan_disabled
                  /\ Len(RuleTokens(new[id].sellplan)) < Len(RuleTokens(old[id].sellplan))

\* C14 as amended: a new plan starts with the empty set and every write of a
\* set (a toggle) leaves only positions of the plan's current sell-rule list
\* in it; an edit keeps the stored set as it is, so a set stops being valid
\* only by an edit that shortens the list, and stays so until the next toggle
\* of that plan.
C14_SetValidWhenWritten ==
    [][/\ DisabledStep(dinamic_dca_plans, dinamic_dca_plans')
       /\ DisabledStep(cryptopips_plans, cryptopips_plans')]_vars

\* a plan edited from two sell rules to one with index 1 still stored
C14_Witness ==
    \E id \in DOMAIN dinamic_dca_plans :
       /\ dinamic_dca_plans[id].sellplan = TxtSellOne
       /\ dinamic_dca_plans[id].sellplan_disabled = TxtDis1

ShownRowNext ==
    (IF details.plan_type = "DinamicDCA" THEN dinamic_dca_plans' ELSE cryptopips_plans')
        [details.plan_id]

Flipped(i, j, old, new) == (j \in new) = (IF j = i THEN j \notin old ELSE j \in old)

\* C15: a toggle of the checkbox of sell rule i flips the membership of
\* exactly index i in the stored disabled-index set of the displayed plan and
\* leaves the membership of every other index as it was, whatever the stored
\* set was before.
C15_ToggleFlipsOnlyIndex ==
    [][\A i \in 0..(Len(sell_rule_vars) - 1) :
          on_sell_rule_toggled(i)
          => LET old == DisabledSet(ShownRow.sellplan_disabled)
                 new == DisabledSet(ShownRowNext.sellplan_disabled)
             IN  \A j \in old \cup new \cup {i} : Flipped(i, j, old, new)]_vars

\* C15 as amended: a toggle of the checkbox of sell rule i flips the
\* membership of index i and leaves the membership of every other position of
\* the displayed sell-rule list as it was; an index that is not a position of
\* the list is not in the set after the toggle.
C15_ToggleFlipsIndexAmongPositions ==
    [][\A i \in 0..(Len(sell_rule_vars) - 1) :
          on_sell_rule_toggled(i)
          => LET old == DisabledSet(ShownRow.sellplan_disabled)
                 new == DisabledSet(ShownRowNext.sellplan_disabled)
                 n   == Len(RuleTokens(ShownRow.sellplan))
             IN  /\ \A j \in 0..(n - 1) : Flipped(i, j, old, new)
                 /\ \A j \in new : j < n]_vars

\* both rules of 2.0,50;1.5,25 switched off, one toggle after the other
C15_Witness ==
    /\ DcaPanel
    /\ DcaRow.sellplan = TxtSellHighFirst
    /\ DcaRow.sellplan_disabled = TxtDis01

====
